---- MODULE Spec2Model ----
(***************************************************************************)
(* A model of pkg/rtc/webrtctransport.go: one WebRTCTransport, the         *)
(* goroutines it spawns (receiveRTP, the sendPLI ticker loop, the PLI      *)
(* listener of each video track, subReadRTCP), its channels stopCh, rtpCh  *)
(* and pliCh, its wait group, and the callers of Close, ReadRTP, WriteRTP  *)
(* and sendREMB.  A goroutine is a program counter; one action is one      *)
(* step between two points at which the goroutine can be preempted or      *)
(* block.  A panic ends the process: no action is enabled afterwards.      *)
(***************************************************************************)
EXTENDS Integers, Sequences, FiniteSets, TLC

\* ---------------------------------------------------------------- bounds
\* Capacity of rtpCh.  The source makes it 1000 (make(chan *rtp.Packet, 1000));
\* the model scales it down so that the full channel is reached, and keeps
\* room for several packets so that packets of one stream and of two streams
\* queue behind one another.
RtpChCap == 2
\* Packets the connection delivers on one inbound stream.
MaxPkts == 2
\* Ticks of the keyframe ticker (pliDuration) the model follows.
MaxTicks == 1
\* Calls of WriteRTP the model follows per stream.
MaxWrites == 3
MaxNacks == 2

\* ------------------------------------------------------- program constants
DefaultPayloadTypeVP8 == 96
DefaultPayloadTypeVP9 == 98
DefaultPayloadTypeH264 == 102
DefaultPayloadTypeOpus == 111
rembLowBW == 30 * 1000
rembHighBW == 100 * 1000

\* ------------------------------------------------------------------ inputs
\* Stream identifiers (SSRC) of the connection and the payload type each
\* carries: one video and one audio stream, as AnswerPublish's transceivers.
VideoSSRC == 11
AudioSSRC == 22
Streams == {VideoSSRC, AudioSSRC}
StreamPT == [s \in Streams |-> IF s = VideoSSRC THEN DefaultPayloadTypeVP8
                                                 ELSE DefaultPayloadTypeOpus]
\* MarshalSize of the packets read.
PktSizes == {3}
\* Callers of Close.
Closers == {1, 2}
\* The options of AnswerPublish; a key is "absent" when the map lacks it.
NilOptions == [nil |-> TRUE, video |-> "absent", audio |-> "absent",
               screen |-> "absent", codec |-> "absent"]
Opt(v, a, s, c) == [nil |-> FALSE, video |-> v, audio |-> a, screen |-> s, codec |-> c]
OptionInputs == {NilOptions,
                 Opt("true", "true", "false", "vp8"),
                 Opt("false", "true", "absent", "absent")}

isVideoPT(pt) == \/ pt = DefaultPayloadTypeVP8
                 \/ pt = DefaultPayloadTypeVP9
                 \/ pt = DefaultPayloadTypeH264

NoPkt == [ssrc |-> 0, seq |-> 0]
NoReport == [ssrc |-> 0, sn |-> 0]
NoNack == [called |-> FALSE, ssrc |-> 0, sns |-> <<>>, hits |-> {}]
NoREMB == [ssrc |-> 0, bitrate |-> 0]
\* The arguments of WriteRTP: nil, or a packet of stream s.
NilPkt == [nil |-> TRUE, ssrc |-> 0]
RtpPkt(s) == [nil |-> FALSE, ssrc |-> s]
\* The goroutines that call WriteRTP.
Writers == {1, 2}
Pkt(s, n) == [ssrc |-> s, seq |-> n]

VARIABLES
  pc,            \* t.pc: "nil", "open" or "closed"
  answerErr,     \* what the Answer call returned: "none" before it
  hasVideo, hasAudio, hasScreen,
  videoCodec,    \* the video codec AnswerPublish registered, or "none"
  ssrcPT,        \* t.ssrcPT: stream id -> payload type (0: no entry)
  track,         \* t.track: stream id -> payload type of its track (0: no entry)
  trackKind,     \* per stream: the kind its track was created with, or "none"
  subLoop,       \* per stream: position of the subReadRTCP goroutine of its sender
  stopClosed,    \* close(t.stopCh) has happened
  rtpCh,         \* the buffer of t.rtpCh
  rtpClosed,     \* close(t.rtpCh) has happened
  pliClosed,     \* close(t.pliCh) has happened
  wg,            \* counter of t.wg
  byteRate, isLostPacket,
  rtpLoop,       \* per stream: position of the OnTrack callback / receiveRTP
  total,         \* per stream: receiveRTP's local total
  held,          \* per stream: the packet receiveRTP read and has not pushed
  nRead,         \* per stream: packets read from the connection so far
  pliLoop,       \* position of the goroutine of sendPLI
  pliTicks,      \* ticks of its ticker taken so far
  lis,           \* per stream: position of the PLI listener goroutine
  pliOut,        \* per stream: PLI reports written to the connection
  closePC,       \* per caller: position in Close
  panic,         \* "none", or why the process died
  nWrites,       \* calls of WriteRTP so far
  wrPC,          \* per caller of WriteRTP: "idle", or "found" after the lookup
  wrArg,         \* per caller: the packet of its running call
  wrTrack,       \* per caller: the stream whose track its lookup found, or 0
  wrPkt,         \* the argument of the last WriteRTP that returned
  wrRet,         \* what it returned
  written,       \* per stream: packets handed to the track of that stream
  rembCalled,    \* sendREMB has been called
  rembLoss,      \* the argument of its last call
  rembOut,       \* the last REMB report written to the connection
  rembLog,       \* the last two reports: loss rate, rate read, bw before clamping, bitrate
  rembPC,        \* where the running sendREMB call is: "idle", "zero", "rate", "write"
  rembVid,       \* its videoSSRC
  rembRate,      \* the value of t.byteRate it read last
  rembSeen,      \* whether a non-zero rate had been measured when it read it
  rembBW,        \* its bw before the two clamping ifs
  ansOpt,        \* the options argument of AnswerPublish
  ansMap,        \* the ssrcPT argument of AnswerSubscribe
  ansFail,       \* the stream ids whose NewTrack failed in AnswerSubscribe
  ansStep,       \* where AnswerSubscribe is: "idle", "tracks" or "returned"
  ansSeen,       \* the entries of the map its loop has visited
  ansErr,        \* the err of the running AnswerSubscribe after SetLocalDescription
  pubPC,         \* the publisher of the pipeline: "absent", or its t.pc
  pubLost,       \* t.isLostPacket of that publisher
  nackReq,       \* per feedback loop, the last NACK report read: stream id, sequence
                 \* numbers, and those of them writePacket replayed so far
  nackOut,       \* per loop, the NACKs it wrote to the publisher while handling it
  nackTodo,      \* per loop, the sequence numbers of the report still to handle
  nackCalls,     \* the number of sendNack calls on this transport
  nackArg,       \* the report given to the last of them
  nackWr,        \* the reports it passed to t.pc.WriteRTCP, in order
  snapCalled,    \* SSRCPT has been called
  snapAt,        \* the contents of t.ssrcPT when it was called
  rateSeen,      \* observer: some window recompute measured a byte rate > 0
  winBytes,      \* observer: bytes read from the connection since the last recompute
  eos,           \* a ReadRTP call has returned errChanClosed
  delivered      \* per stream: seq of the packets ReadRTP returned

chans == <<stopClosed, rtpCh, rtpClosed, pliClosed>>
flags == <<hasVideo, hasAudio, hasScreen, videoCodec>>
rtpVars == <<rtpLoop, total, held, nRead>>
pliVars == <<pliLoop, pliTicks, lis, pliOut>>
rdVars == <<eos, delivered>>
wrVars == <<nWrites, wrPC, wrArg, wrTrack, wrPkt, wrRet, written>>
rembVars == <<rembCalled, rembLoss, rembOut, rembLog, rembPC, rembVid, rembRate, rembSeen, rembBW>>
ansVars == <<ansOpt, ansMap, ansFail, ansStep, ansSeen, ansErr>>
snapVars == <<snapCalled, snapAt>>
obsVars == <<rateSeen, winBytes>>
nackVars == <<pubPC, pubLost, nackReq, nackOut, nackTodo>>
lossVars == <<nackCalls, nackArg, nackWr>>
callVars == <<wrVars, rembVars, snapVars, nackVars, lossVars>>
ioVars == <<callVars, ansVars, obsVars>>
subVars == <<track, trackKind, subLoop>>
vars == <<pc, answerErr, flags, ssrcPT, subVars, chans, wg, byteRate, isLostPacket,
          rtpVars, pliVars, closePC, panic, rdVars, ioVars>>

\* newWebRTCTransport
Init ==
  /\ pc = "nil" /\ answerErr = "none"
  /\ hasVideo = FALSE /\ hasAudio = FALSE /\ hasScreen = FALSE
  /\ videoCodec = "none"
  /\ ssrcPT = [s \in Streams |-> 0]
  /\ track = [s \in Streams |-> 0]
  /\ trackKind = [s \in Streams |-> "none"]
  /\ subLoop = [s \in Streams |-> "none"]
  /\ stopClosed = FALSE /\ rtpCh = <<>> /\ rtpClosed = FALSE /\ pliClosed = FALSE
  /\ wg = 0 /\ byteRate = 0 /\ isLostPacket = FALSE
  /\ rtpLoop = [s \in Streams |-> "idle"]
  /\ total = [s \in Streams |-> 0]
  /\ held = [s \in Streams |-> NoPkt]
  /\ nRead = [s \in Streams |-> 0]
  /\ pliLoop = "none" /\ pliTicks = 0
  /\ lis = [s \in Streams |-> "none"]
  /\ pliOut = [s \in Streams |-> 0]
  /\ closePC = [c \in Closers |-> "idle"]
  /\ panic = "none"
  /\ eos = FALSE
  /\ nWrites = 0 /\ wrPkt = NilPkt /\ wrRet = "none"
  /\ wrPC = [w \in Writers |-> "idle"]
  /\ wrArg = [w \in Writers |-> NilPkt]
  /\ wrTrack = [w \in Writers |-> 0]
  /\ written = [s \in Streams |-> 0]
  /\ rembCalled = FALSE /\ rembLoss = 0 /\ rembOut = NoREMB /\ rembLog = <<>>
  /\ rembPC = "idle" /\ rembVid = 0 /\ rembRate = 0 /\ rembSeen = FALSE /\ rembBW = 0
  /\ ansOpt = NilOptions /\ ansMap = [s \in Streams |-> 0] /\ ansFail = {}
  /\ ansStep = "idle" /\ ansSeen = {} /\ ansErr = "none"
  /\ snapCalled = FALSE /\ snapAt = [s \in Streams |-> 0]
  /\ pubPC = "absent" /\ pubLost = FALSE
  /\ nackReq = [s \in Streams |-> NoNack]
  /\ nackOut = [s \in Streams |-> <<>>]
  /\ nackTodo = [s \in Streams |-> <<>>]
  /\ nackCalls = 0 /\ nackArg = NoReport /\ nackWr = <<>>
  /\ rateSeen = FALSE /\ winBytes = 0
  /\ delivered = [s \in Streams |-> <<>>]


\* ---------------------------------------------------------------- t.wg
\* t.wg.Done() that brings the counter to w: at 0 the runtime resets the
\* wait group and releases every caller blocked in Wait.
Released(w) ==
  [c \in Closers |-> IF closePC[c] = "blocked" /\ w = 0 THEN "woken" ELSE closePC[c]]

\* ------------------------------------------------------------ AnswerPublish
\* A value under the "codec" key that is not a string.
NotAString == "<int>"

\* strings.EqualFold(a, b) for b one of "h264" and "vp9": a is b in some
\* mix of upper and lower case.
EqualFold(a, b) ==
  \/ b = "h264" /\ a \in {"h264", "H264"}
  \/ b = "vp9" /\ a \in {"vp9", "vP9", "Vp9", "VP9"}

\* codecStr := codec.(string) panics when the value is not a string.
CodecPanics(o) == ~o.nil /\ o.codec = NotAString

\* options["codec"] compared with strings.EqualFold; no key, no video codec.
CodecOf(o) ==
  IF o.codec = "absent" THEN "none"
  ELSE IF EqualFold(o.codec, "h264") THEN "h264"
  ELSE IF EqualFold(o.codec, "vp9") THEN "vp9"
  ELSE "vp8"

\* v, ok := options[k].(bool); if ok { flag = v }
FlagOf(old, v) == IF v = "absent" THEN old ELSE (v = "true")

\* sendPLI: the goroutine is spawned; it registers with t.wg only when it runs.
sendPLI(video, screen) == IF video \/ screen THEN "spawned" ELSE "none"

\* An AnswerPublish that creates the connection before it looks at options.
AnswerPublishLateNilCheck(o, out) ==
  /\ panic = "none" /\ pc = "nil" /\ answerErr = "none" /\ ansStep = "idle"
  /\ ansOpt' = o
  /\ IF CodecPanics(o)
       THEN /\ panic' = "type assertion"
            /\ UNCHANGED <<pc, answerErr, flags, pliLoop>>
       ELSE /\ pc' = IF out = "pcErr" THEN "nil" ELSE "open"
            /\ UNCHANGED panic
            /\ IF o.nil
                 THEN /\ answerErr' = "invalid options"
                      /\ UNCHANGED <<flags, pliLoop>>
                 ELSE /\ videoCodec' = CodecOf(o)
                      /\ hasVideo' = FlagOf(hasVideo, o.video)
                      /\ hasAudio' = FlagOf(hasAudio, o.audio)
                      /\ hasScreen' = FlagOf(hasScreen, o.screen)
                      /\ answerErr' = IF out = "ok" THEN "published" ELSE out
                      /\ pliLoop' = IF out \in {"ok", "localErr"}
                                      THEN sendPLI(hasVideo', hasScreen')
                                      ELSE "none"
  /\ UNCHANGED <<callVars, obsVars, ansMap, ansFail, ansStep, ansSeen, ansErr, subVars, ssrcPT,
                 chans, wg, byteRate, isLostPacket, rtpVars, pliTicks, lis, pliOut,
                 closePC, rdVars>>

\* AnswerPublish(rid, offer, options, fn); out is how the handshake ends:
\* "ok", "pcErr" (NewPeerConnection fails), "sdpErr" (AddTransceiver or
\* SetRemoteDescription fails) or "localErr" (SetLocalDescription fails: its
\* error is returned after t.sendPLI() has run).  A transport is answered
\* once.
AnswerOutcomes == {"ok", "pcErr", "sdpErr", "localErr"}
AnswerPublish(o, out) ==
  /\ panic = "none" /\ pc = "nil" /\ answerErr = "none" /\ ansStep = "idle"
  /\ ansOpt' = o
  /\ IF o.nil
       THEN /\ answerErr' = "invalid options"
            /\ UNCHANGED <<pc, flags, pliLoop, panic>>
       ELSE IF CodecPanics(o)
         THEN /\ panic' = "type assertion"
              /\ UNCHANGED <<pc, answerErr, flags, pliLoop>>
         ELSE /\ videoCodec' = CodecOf(o)
              /\ hasVideo' = FlagOf(hasVideo, o.video)
              /\ hasAudio' = FlagOf(hasAudio, o.audio)
              /\ hasScreen' = FlagOf(hasScreen, o.screen)
              /\ pc' = IF out = "pcErr" THEN "nil" ELSE "open"
              /\ answerErr' = IF out = "ok" THEN "published" ELSE out
              /\ pliLoop' = IF out \in {"ok", "localErr"}
                              THEN sendPLI(hasVideo', hasScreen')
                              ELSE "none"
              /\ UNCHANGED panic
  /\ UNCHANGED <<callVars, obsVars, ansMap, ansFail, ansStep, ansSeen, ansErr, subVars, ssrcPT,
                 chans, wg, byteRate, isLostPacket, rtpVars, pliTicks, lis, pliOut,
                 closePC, rdVars>>

\* The connection discovers inbound stream s and starts the OnTrack callback
\* in a goroutine of its own.
TrackDiscovered(s) ==
  /\ panic = "none" /\ pc = "open" /\ answerErr = "published" /\ rtpLoop[s] = "idle"
  /\ rtpLoop' = [rtpLoop EXCEPT ![s] = "ontrack"]
  /\ UNCHANGED <<ioVars, subVars, pc, answerErr, flags, ssrcPT, chans, wg, byteRate, isLostPacket,
                 total, held, nRead, pliVars, closePC, panic, rdVars>>

\* The OnTrack callback records the payload type under ssrcPTLock.  For a
\* video payload type it goes on to register the listener, for any other
\* to fn() and receiveRTP.
OnTrack(s) ==
  /\ panic = "none" /\ rtpLoop[s] = "ontrack"
  /\ ssrcPT' = [ssrcPT EXCEPT ![s] = StreamPT[s]]
  /\ rtpLoop' = [rtpLoop EXCEPT ![s] = IF isVideoPT(StreamPT[s]) THEN "listen" ELSE "start"]
  /\ UNCHANGED <<ioVars, subVars, pc, answerErr, flags, chans, wg, byteRate, isLostPacket,
                 total, held, nRead, pliVars, closePC, panic, rdVars>>

\* The callback of a video stream, after the lock is released: t.wg.Add(1),
\* the PLI listener goroutine is started, then fn() and receiveRTP.
OnTrackListen(s) ==
  /\ panic = "none" /\ rtpLoop[s] = "listen"
  /\ wg' = wg + 1
  /\ lis' = [lis EXCEPT ![s] = "select"]
  /\ rtpLoop' = [rtpLoop EXCEPT ![s] = "start"]
  /\ UNCHANGED <<ioVars, subVars, pc, answerErr, flags, ssrcPT, chans, byteRate,
                 isLostPacket, total, held, nRead, pliLoop, pliTicks, pliOut, closePC,
                 panic, rdVars>>

\* ---------------------------------------------------------------- receiveRTP
\* t.wg.Add(1); ticker; total := 0
RtpStart(s) ==
  /\ panic = "none" /\ rtpLoop[s] = "start"
  /\ wg' = wg + 1
  /\ total' = [total EXCEPT ![s] = 0]
  /\ rtpLoop' = [rtpLoop EXCEPT ![s] = "select"]
  /\ UNCHANGED <<ioVars, subVars, pc, answerErr, flags, ssrcPT, chans, byteRate, isLostPacket, held,
                 nRead, pliVars, closePC, panic, rdVars>>

\* case <-t.stopCh
RtpStop(s) ==
  /\ panic = "none" /\ rtpLoop[s] = "select" /\ stopClosed
  /\ wg' = wg - 1
  /\ rtpLoop' = [rtpLoop EXCEPT ![s] = "done"]
  /\ closePC' = Released(wg')
  /\ UNCHANGED <<ioVars, subVars, pc, answerErr, flags, ssrcPT, chans, byteRate, isLostPacket, total,
                 held, nRead, pliVars, panic, rdVars>>

\* case <-ticker.C (the 3 s window has passed)
RtpTick(s) ==
  /\ panic = "none" /\ rtpLoop[s] = "select"
  /\ byteRate' = total[s] \div 3
  /\ total' = [total EXCEPT ![s] = 0]
  /\ isLostPacket' = FALSE
  /\ UNCHANGED <<callVars, ansVars, subVars, pc, answerErr, flags, ssrcPT, chans, wg, rtpLoop, held, nRead,
                 pliVars, closePC, panic, rdVars>>

\* default: taken only when neither stopCh nor the ticker is ready; the loop
\* then blocks in remoteTrack.ReadRTP().
RtpDefault(s) ==
  /\ panic = "none" /\ rtpLoop[s] = "select" /\ ~stopClosed
  /\ rtpLoop' = [rtpLoop EXCEPT ![s] = "read"]
  /\ UNCHANGED <<ioVars, subVars, pc, answerErr, flags, ssrcPT, chans, wg, byteRate, isLostPacket,
                 total, held, nRead, pliVars, closePC, panic, rdVars>>

\* ReadRTP returns the next packet of the stream, of MarshalSize sz.
RtpReadPkt(s, sz) ==
  /\ panic = "none" /\ rtpLoop[s] = "read" /\ pc = "open" /\ nRead[s] < MaxPkts
  /\ nRead' = [nRead EXCEPT ![s] = @ + 1]
  /\ total' = [total EXCEPT ![s] = @ + sz]
  /\ held' = [held EXCEPT ![s] = Pkt(s, nRead[s] + 1)]
  /\ rtpLoop' = [rtpLoop EXCEPT ![s] = "send"]
  /\ UNCHANGED <<callVars, ansVars, subVars, pc, answerErr, flags, ssrcPT, chans, wg, byteRate, isLostPacket,
                 pliVars, closePC, panic, rdVars>>

\* ReadRTP returns io.EOF because the connection was closed.
RtpReadEOF(s) ==
  /\ panic = "none" /\ rtpLoop[s] = "read" /\ pc = "closed"
  /\ wg' = wg - 1
  /\ rtpLoop' = [rtpLoop EXCEPT ![s] = "done"]
  /\ closePC' = Released(wg')
  /\ UNCHANGED <<ioVars, subVars, pc, answerErr, flags, ssrcPT, chans, byteRate, isLostPacket, total,
                 held, nRead, pliVars, panic, rdVars>>

\* An end-of-stream exit that returns without t.wg.Done().
RtpStreamEndNoDone(s) ==
  /\ panic = "none" /\ rtpLoop[s] = "read" /\ pc = "open"
  /\ rtpLoop' = [rtpLoop EXCEPT ![s] = "done"]
  /\ UNCHANGED <<ioVars, subVars, pc, answerErr, flags, ssrcPT, chans, wg, byteRate,
                 isLostPacket, total, held, nRead, pliVars, closePC, panic, rdVars>>

\* ReadRTP returns io.EOF because the remote ended the stream.
RtpStreamEnd(s) ==
  /\ panic = "none" /\ rtpLoop[s] = "read" /\ pc = "open"
  /\ wg' = wg - 1
  /\ rtpLoop' = [rtpLoop EXCEPT ![s] = "done"]
  /\ closePC' = Released(wg')
  /\ UNCHANGED <<ioVars, subVars, pc, answerErr, flags, ssrcPT, chans, byteRate,
                 isLostPacket, total, held, nRead, pliVars, panic, rdVars>>

\* ReadRTP returns (nil, err) with err != io.EOF: the error is logged and
\* rtp.MarshalSize() dereferences the nil packet.
RtpReadErr(s) ==
  /\ panic = "none" /\ rtpLoop[s] = "read" /\ pc = "open"
  /\ panic' = "nil packet"
  /\ UNCHANGED <<ioVars, subVars, pc, answerErr, flags, ssrcPT, chans, wg, byteRate, isLostPacket,
                 rtpVars, pliVars, closePC, rdVars>>

\* Mutant: a buffer that puts the newest packet in front of the waiting ones,
\* so that the reader gets the packets last in, first out.
RtpPushFront(s) ==
  /\ panic = "none" /\ rtpLoop[s] = "send"
  /\ IF rtpClosed
       THEN /\ panic' = "send on closed rtpCh"
            /\ UNCHANGED <<rtpCh, held, rtpLoop>>
       ELSE /\ Len(rtpCh) < RtpChCap
            /\ rtpCh' = <<held[s]>> \o rtpCh
            /\ held' = [held EXCEPT ![s] = NoPkt]
            /\ rtpLoop' = [rtpLoop EXCEPT ![s] = "select"]
            /\ UNCHANGED panic
  /\ UNCHANGED <<ioVars, subVars, pc, answerErr, flags, ssrcPT, stopClosed, rtpClosed, pliClosed, wg,
                 byteRate, isLostPacket, total, nRead, pliVars, closePC, rdVars>>

\* t.rtpCh <- rtp: the packet goes behind the ones already in the buffer;
\* the send blocks while the buffer is full and panics on a closed channel.
RtpPush(s) ==
  /\ panic = "none" /\ rtpLoop[s] = "send"
  /\ IF rtpClosed
       THEN /\ panic' = "send on closed rtpCh"
            /\ UNCHANGED <<rtpCh, held, rtpLoop>>
       ELSE /\ Len(rtpCh) < RtpChCap
            /\ rtpCh' = Append(rtpCh, held[s])
            /\ held' = [held EXCEPT ![s] = NoPkt]
            /\ rtpLoop' = [rtpLoop EXCEPT ![s] = "select"]
            /\ UNCHANGED panic
  /\ UNCHANGED <<ioVars, subVars, pc, answerErr, flags, ssrcPT, stopClosed, rtpClosed, pliClosed, wg,
                 byteRate, isLostPacket, total, nRead, pliVars, closePC, rdVars>>


\* ------------------------------------------------- the goroutine of sendPLI
\* ticker := time.NewTicker(pliDuration); t.wg.Add(1)
PliStart ==
  /\ panic = "none" /\ pliLoop = "spawned"
  /\ wg' = wg + 1
  /\ pliLoop' = "select"
  /\ UNCHANGED <<ioVars, subVars, pc, answerErr, flags, ssrcPT, chans, byteRate, isLostPacket,
                 rtpVars, pliTicks, lis, pliOut, closePC, panic, rdVars>>

\* A shutdown exit of the ticker loop that calls t.wg.Done() twice.
PliStopDoneTwice ==
  /\ panic = "none" /\ pliLoop = "select" /\ stopClosed
  /\ wg' = wg - 2
  /\ pliLoop' = "done"
  /\ closePC' = Released(wg')
  /\ UNCHANGED <<ioVars, subVars, pc, answerErr, flags, ssrcPT, chans, byteRate, isLostPacket,
                 rtpVars, pliTicks, lis, pliOut, panic, rdVars>>

\* case <-t.stopCh
PliStop ==
  /\ panic = "none" /\ pliLoop = "select" /\ stopClosed
  /\ wg' = wg - 1
  /\ pliLoop' = "done"
  /\ closePC' = Released(wg')
  /\ UNCHANGED <<ioVars, subVars, pc, answerErr, flags, ssrcPT, chans, byteRate, isLostPacket,
                 rtpVars, pliTicks, lis, pliOut, panic, rdVars>>

\* case <-ticker.C: the loop goes to its send on pliCh.  When stopCh is
\* closed too, select takes either ready case.
PliTick ==
  /\ panic = "none" /\ pliLoop = "select" /\ pliTicks < MaxTicks
  /\ pliTicks' = pliTicks + 1
  /\ pliLoop' = "send"
  /\ UNCHANGED <<ioVars, subVars, pc, answerErr, flags, ssrcPT, chans, wg, byteRate, isLostPacket,
                 rtpVars, lis, pliOut, closePC, panic, rdVars>>

\* t.pc.WriteRTCP of a PictureLossIndication for stream s: the report reaches
\* the connection while it is open.
WritePLI(s) == IF pc = "open" THEN [pliOut EXCEPT ![s] = @ + 1] ELSE pliOut

\* t.pliCh <- 1 meets case <-t.pliCh of the listener of stream s (pliCh is
\* unbuffered); the listener writes the PLI and selects again.
PliSend(s) ==
  /\ panic = "none" /\ pliLoop = "send" /\ ~pliClosed /\ lis[s] = "select"
  /\ pliLoop' = "select"
  /\ pliOut' = WritePLI(s)
  /\ UNCHANGED <<ioVars, subVars, pc, answerErr, flags, ssrcPT, chans, wg, byteRate, isLostPacket,
                 rtpVars, pliTicks, lis, closePC, panic, rdVars>>

\* t.pliCh <- 1 on the closed channel
PliSendClosed ==
  /\ panic = "none" /\ pliLoop = "send" /\ pliClosed
  /\ panic' = "send on closed pliCh"
  /\ UNCHANGED <<ioVars, subVars, pc, answerErr, flags, ssrcPT, chans, wg, byteRate, isLostPacket,
                 rtpVars, pliVars, closePC, rdVars>>

\* ------------------------------------- the PLI listener of a video stream
\* case <-t.stopCh
LisStop(s) ==
  /\ panic = "none" /\ lis[s] = "select" /\ stopClosed
  /\ wg' = wg - 1
  /\ lis' = [lis EXCEPT ![s] = "done"]
  /\ closePC' = Released(wg')
  /\ UNCHANGED <<ioVars, subVars, pc, answerErr, flags, ssrcPT, chans, byteRate, isLostPacket,
                 rtpVars, pliLoop, pliTicks, pliOut, panic, rdVars>>

\* case <-t.pliCh on the closed channel: the receive returns at once and the
\* listener writes a PLI.
LisRecvClosed(s) ==
  /\ panic = "none" /\ lis[s] = "select" /\ pliClosed
  /\ pliOut' = WritePLI(s)
  /\ UNCHANGED <<ioVars, subVars, pc, answerErr, flags, ssrcPT, chans, wg, byteRate, isLostPacket,
                 rtpVars, pliLoop, pliTicks, lis, closePC, panic, rdVars>>

\* ----------------------------------------------------------------- Close
\* t.pc.Close(): a nil t.pc is dereferenced.  Callers are numbered in the
\* order in which they call.
CloseCall(c) ==
  /\ panic = "none" /\ closePC[c] = "idle"
  /\ \A d \in Closers : d < c => closePC[d] # "idle"
  /\ IF pc = "nil"
       THEN /\ panic' = "nil pc"
            /\ UNCHANGED <<pc, closePC>>
       ELSE /\ pc' = "closed"
            /\ closePC' = [closePC EXCEPT ![c] = "closeStop"]
            /\ UNCHANGED panic
  /\ UNCHANGED <<ioVars, subVars, answerErr, flags, ssrcPT, chans, wg, byteRate, isLostPacket,
                 rtpVars, pliVars, rdVars>>

\* close(t.stopCh)
CloseStop(c) ==
  /\ panic = "none" /\ closePC[c] = "closeStop"
  /\ IF stopClosed
       THEN /\ panic' = "close of closed stopCh"
            /\ UNCHANGED <<stopClosed, closePC>>
       ELSE /\ stopClosed' = TRUE
            /\ closePC' = [closePC EXCEPT ![c] = "wait"]
            /\ UNCHANGED panic
  /\ UNCHANGED <<ioVars, subVars, pc, answerErr, flags, ssrcPT, rtpCh, rtpClosed, pliClosed, wg,
                 byteRate, isLostPacket, rtpVars, pliVars, rdVars>>

\* t.wg.Wait(): returns at once when the counter is 0, else the caller
\* blocks until a Done brings the counter to 0.
CloseWait(c) ==
  /\ panic = "none" /\ closePC[c] = "wait"
  /\ closePC' = [closePC EXCEPT ![c] = IF wg = 0 THEN "closeRtp" ELSE "blocked"]
  /\ UNCHANGED <<ioVars, subVars, pc, answerErr, flags, ssrcPT, chans, wg, byteRate, isLostPacket,
                 rtpVars, pliVars, panic, rdVars>>

\* The released caller resumes in Wait: it panics (WaitGroup is reused
\* before previous Wait has returned) when a t.wg.Add(1) ran meanwhile.
CloseWake(c) ==
  /\ panic = "none" /\ closePC[c] = "woken"
  /\ IF wg # 0
       THEN /\ panic' = "WaitGroup reused"
            /\ UNCHANGED closePC
       ELSE /\ closePC' = [closePC EXCEPT ![c] = "closeRtp"]
            /\ UNCHANGED panic
  /\ UNCHANGED <<ioVars, subVars, pc, answerErr, flags, ssrcPT, chans, wg, byteRate, isLostPacket,
                 rtpVars, pliVars, rdVars>>

\* close(t.rtpCh)
CloseRtp(c) ==
  /\ panic = "none" /\ closePC[c] = "closeRtp"
  /\ IF rtpClosed
       THEN /\ panic' = "close of closed rtpCh"
            /\ UNCHANGED <<rtpClosed, closePC>>
       ELSE /\ rtpClosed' = TRUE
            /\ closePC' = [closePC EXCEPT ![c] = "closePli"]
            /\ UNCHANGED panic
  /\ UNCHANGED <<ioVars, subVars, pc, answerErr, flags, ssrcPT, stopClosed, rtpCh, pliClosed, wg,
                 byteRate, isLostPacket, rtpVars, pliVars, rdVars>>

\* close(t.pliCh)
ClosePli(c) ==
  /\ panic = "none" /\ closePC[c] = "closePli"
  /\ IF pliClosed
       THEN /\ panic' = "close of closed pliCh"
            /\ UNCHANGED <<pliClosed, closePC>>
       ELSE /\ pliClosed' = TRUE
            /\ closePC' = [closePC EXCEPT ![c] = "done"]
            /\ UNCHANGED panic
  /\ UNCHANGED <<ioVars, subVars, pc, answerErr, flags, ssrcPT, stopClosed, rtpCh, rtpClosed, wg,
                 byteRate, isLostPacket, rtpVars, pliVars, rdVars>>

\* ---------------------------------------------------------------- ReadRTP
\* rtp, ok := <-t.rtpCh returns the head of the buffer, also of a closed
\* channel; the call blocks while the channel is open and empty.
ReadPkt ==
  /\ panic = "none" /\ rtpCh # <<>>
  /\ rtpCh' = Tail(rtpCh)
  /\ delivered' = [delivered EXCEPT ![Head(rtpCh).ssrc] = Append(@, Head(rtpCh).seq)]
  /\ UNCHANGED <<ioVars, subVars, pc, answerErr, flags, ssrcPT, stopClosed, rtpClosed, pliClosed, wg,
                 byteRate, isLostPacket, rtpVars, pliVars, closePC, panic, eos>>

\* Mutant: errChanClosed as soon as the channel is closed, buffered packets or not.
ReadClosedEarly ==
  /\ panic = "none" /\ rtpClosed
  /\ eos' = TRUE
  /\ UNCHANGED <<ioVars, subVars, pc, answerErr, flags, ssrcPT, chans, wg, byteRate,
                 isLostPacket, rtpVars, pliVars, closePC, panic, delivered>>

\* The receive on the closed and drained channel: ok is false, errChanClosed.
ReadClosed ==
  /\ panic = "none" /\ rtpCh = <<>> /\ rtpClosed
  /\ eos' = TRUE
  /\ UNCHANGED <<ioVars, subVars, pc, answerErr, flags, ssrcPT, chans, wg, byteRate, isLostPacket,
                 rtpVars, pliVars, closePC, panic, delivered>>

\* ---------------------------------------------------------- AnswerSubscribe
\* The stream-id-to-payload-type maps handed to AnswerSubscribe (0: no entry).
SubMap(v, a) == [s \in Streams |-> IF s = VideoSSRC THEN v ELSE a]
SubMapInputs == {SubMap(DefaultPayloadTypeVP8, DefaultPayloadTypeOpus),
                 SubMap(DefaultPayloadTypeH264, 0),
                 SubMap(0, 0)}

\* A kind that takes VP9 for an audio payload type.
TrackKindNoVP9(pt) ==
  IF pt \in {DefaultPayloadTypeVP8, DefaultPayloadTypeH264} THEN "video" ELSE "audio"

\* The kind of the track created for payload type pt.
TrackKind(pt) == IF isVideoPT(pt) THEN "video" ELSE "audio"

\* The loop over ssrcPT: a track is registered for every entry whose NewTrack
\* succeeds (fail: the stream ids whose NewTrack returns nil).
TracksOf(m, fail) == [s \in Streams |-> IF m[s] # 0 /\ s \notin fail THEN m[s] ELSE 0]

\* AnswerSubscribe(offer, ssrcPT, mid) up to its loop over ssrcPT: t.pc is
\* assigned; out is "pcErr" when NewPeerConnection fails, and the call
\* returns.
AnswerSubscribe(m, fail, out) ==
  /\ panic = "none" /\ pc = "nil" /\ answerErr = "none" /\ ansStep = "idle"
  /\ fail \subseteq {s \in Streams : m[s] # 0}
  /\ ansMap' = m /\ ansFail' = fail /\ ansSeen' = {}
  /\ IF out = "pcErr"
       THEN /\ answerErr' = out
            /\ ansStep' = "returned"
            /\ UNCHANGED pc
       ELSE /\ pc' = "open"
            /\ ansStep' = "tracks"
            /\ UNCHANGED answerErr
  /\ UNCHANGED <<callVars, obsVars, ansOpt, ansErr, subVars, wg, flags, ssrcPT, chans, byteRate,
                 isLostPacket, rtpVars, pliVars, closePC, panic, rdVars>>

\* One iteration of the loop over ssrcPT (in the order of the range over
\* the map): NewTrack, and under trackLock t.track[ssrc] = track when the
\* track is not nil.
SubAddTrack(s) ==
  /\ panic = "none" /\ ansStep = "tracks"
  /\ ansMap[s] # 0 /\ s \notin ansSeen
  /\ ansSeen' = ansSeen \cup {s}
  /\ track' = [track EXCEPT ![s] = TracksOf(ansMap, ansFail)[s]]
  /\ trackKind' = [trackKind EXCEPT ![s] = IF track'[s] # 0 THEN TrackKind(ansMap[s])
                                                              ELSE "none"]
  /\ UNCHANGED <<callVars, obsVars, ansOpt, ansMap, ansFail, ansStep, ansErr, subLoop, wg, pc,
                 answerErr, flags, ssrcPT, chans, byteRate, isLostPacket, rtpVars, pliVars,
                 closePC, panic, rdVars>>

\* SetRemoteDescription, CreateAnswer and SetLocalDescription: out is
\* "sdpErr" when SetRemoteDescription fails (the call returns; a closed
\* connection always fails it), else the call goes on to subReadRTCP(mid)
\* with the error of SetLocalDescription ("localErr") or none ("ok").
SubHandshake(out) ==
  /\ panic = "none" /\ ansStep = "tracks"
  /\ \A s \in Streams : ansMap[s] # 0 => s \in ansSeen
  /\ pc = "closed" => out = "sdpErr"
  /\ IF out = "sdpErr"
       THEN /\ ansStep' = "returned"
            /\ answerErr' = out
            /\ UNCHANGED ansErr
       ELSE /\ ansStep' = "loops"
            /\ ansErr' = out
            /\ UNCHANGED answerErr
  /\ UNCHANGED <<callVars, obsVars, ansOpt, ansMap, ansFail, ansSeen, subVars, wg, pc,
                 flags, ssrcPT, chans, byteRate, isLostPacket, rtpVars, pliVars, closePC,
                 panic, rdVars>>

\* One iteration of the loop of subReadRTCP over the senders of the
\* connection (one sender for each track added): t.wg.Add(1) and the
\* goroutine of that sender.
subReadRTCP(s) ==
  /\ panic = "none" /\ ansStep = "loops"
  /\ track[s] # 0 /\ subLoop[s] = "none"
  /\ wg' = wg + 1
  /\ subLoop' = [subLoop EXCEPT ![s] = "select"]
  /\ UNCHANGED <<callVars, ansVars, obsVars, track, trackKind, pc, answerErr, flags, ssrcPT,
                 chans, byteRate, isLostPacket, rtpVars, pliVars, closePC, panic, rdVars>>

\* subReadRTCP is through with the senders: return answer, err.
SubReturn ==
  /\ panic = "none" /\ ansStep = "loops"
  /\ \A s \in Streams : track[s] # 0 => subLoop[s] # "none"
  /\ ansStep' = "returned"
  /\ answerErr' = IF ansErr = "ok" THEN "subscribed" ELSE ansErr
  /\ UNCHANGED <<callVars, obsVars, ansOpt, ansMap, ansFail, ansSeen, ansErr, subVars, wg, pc,
                 flags, ssrcPT, chans, byteRate, isLostPacket, rtpVars, pliVars, closePC,
                 panic, rdVars>>

\* case <-t.stopCh
SubStop(s) ==
  /\ panic = "none" /\ subLoop[s] = "select" /\ stopClosed
  /\ wg' = wg - 1
  /\ subLoop' = [subLoop EXCEPT ![s] = "done"]
  /\ closePC' = Released(wg')
  /\ UNCHANGED <<ioVars, pc, answerErr, flags, ssrcPT, track, trackKind, chans, byteRate, isLostPacket,
                 rtpVars, pliVars, panic, rdVars>>

\* default: the loop blocks in senders[i].ReadRTCP()
SubDefault(s) ==
  /\ panic = "none" /\ subLoop[s] = "select" /\ ~stopClosed
  /\ subLoop' = [subLoop EXCEPT ![s] = "read"]
  /\ UNCHANGED <<ioVars, pc, answerErr, flags, ssrcPT, track, trackKind, chans, wg, byteRate,
                 isLostPacket, rtpVars, pliVars, closePC, panic, rdVars>>

\* ReadRTCP returns io.EOF because the remote ended the stream.
SubStreamEnd(s) ==
  /\ panic = "none" /\ subLoop[s] = "read" /\ pc = "open"
  /\ wg' = wg - 1
  /\ subLoop' = [subLoop EXCEPT ![s] = "done"]
  /\ closePC' = Released(wg')
  /\ UNCHANGED <<ioVars, pc, answerErr, flags, ssrcPT, track, trackKind, chans, byteRate,
                 isLostPacket, rtpVars, pliVars, panic, rdVars>>

\* ReadRTCP returns io.EOF because the connection was closed.
SubReadEOF(s) ==
  /\ panic = "none" /\ subLoop[s] = "read" /\ pc = "closed"
  /\ wg' = wg - 1
  /\ subLoop' = [subLoop EXCEPT ![s] = "done"]
  /\ closePC' = Released(wg')
  /\ UNCHANGED <<ioVars, pc, answerErr, flags, ssrcPT, track, trackKind, chans, byteRate, isLostPacket,
                 rtpVars, pliVars, panic, rdVars>>

\* ReadRTCP returns reports that need no retransmission (or an error that is
\* logged): the loop selects again.
SubReadRTCP(s) ==
  /\ panic = "none" /\ subLoop[s] = "read" /\ pc = "open"
  /\ subLoop' = [subLoop EXCEPT ![s] = "select"]
  /\ UNCHANGED <<ioVars, pc, answerErr, flags, ssrcPT, track, trackKind, chans, wg, byteRate,
                 isLostPacket, rtpVars, pliVars, closePC, panic, rdVars>>

\* The pipeline binds, or loses, its publisher: p is "absent" (getPub()
\* returns nil) or the t.pc of the publisher transport ("nil" before its
\* connection is made, "open" after).
PubStates == {"absent", "nil", "open"}
PubChange(p) ==
  /\ panic = "none" /\ pubPC # p
  /\ pubPC' = p
  /\ pubLost' = IF p = "absent" THEN FALSE ELSE pubLost
  /\ UNCHANGED <<lossVars, wrVars, rembVars, snapVars, nackReq, nackOut, nackTodo, ansVars, obsVars, subVars,
                 pc, answerErr, flags, ssrcPT, chans, wg, byteRate, isLostPacket, rtpVars,
                 pliVars, closePC, panic, rdVars>>

\* The sequence numbers of a report, and the reports handled.
SeqNums == {1, 2}
NackLists == {<<1>>, <<2>>, <<1, 2>>, <<2, 1>>}

\* A sendNack that goes on without a connection.
sendNackWritesAlways(ppc) == TRUE

\* sendNack on a publisher transport: returns at once when t.pc == nil,
\* else sets t.isLostPacket and writes the report.
sendNackWrites(ppc) == ppc # "nil"

\* ReadRTCP returns a TransportLayerNack for stream ssrc with the sequence
\* numbers sns: the loop enters for _, sn := range sns.
SubReadNack(s, ssrc, sns) ==
  /\ panic = "none" /\ subLoop[s] = "read" /\ pc = "open"
  /\ nackReq' = [nackReq EXCEPT ![s] = [called |-> TRUE, ssrc |-> ssrc, sns |-> sns, hits |-> {}]]
  /\ nackOut' = [nackOut EXCEPT ![s] = <<>>]
  /\ nackTodo' = [nackTodo EXCEPT ![s] = sns]
  /\ subLoop' = [subLoop EXCEPT ![s] = "nack"]
  /\ UNCHANGED <<lossVars, wrVars, rembVars, snapVars, pubPC, pubLost, ansVars, obsVars, track,
                 trackKind, pc, answerErr, flags, ssrcPT, chans, wg, byteRate, isLostPacket,
                 rtpVars, pliVars, closePC, panic, rdVars>>

\* One iteration of the loop over sns: hit says whether writePacket replays
\* the packet from the cache of the pipeline.  On a miss the loop evaluates
\* getPipeline(mid).getPub() anew and calls sendNack on it; a nil publisher
\* is dereferenced in sendNack.  After the last sequence number the loop
\* selects again.
SubNackStep(s, hit) ==
  /\ panic = "none" /\ subLoop[s] = "nack" /\ nackTodo[s] # <<>>
  /\ IF hit
       THEN /\ nackReq' = [nackReq EXCEPT ![s].hits = @ \cup {Head(nackTodo[s])}]
            /\ nackTodo' = [nackTodo EXCEPT ![s] = Tail(@)]
            /\ subLoop' = [subLoop EXCEPT ![s] = IF Tail(nackTodo[s]) = <<>> THEN "select" ELSE "nack"]
            /\ UNCHANGED <<nackOut, pubLost, panic>>
       ELSE IF pubPC = "absent"
         THEN /\ panic' = "nil transport"
              /\ subLoop' = [subLoop EXCEPT ![s] = "crashed"]
              /\ UNCHANGED <<nackReq, nackOut, nackTodo, pubLost>>
         ELSE /\ nackOut' = [nackOut EXCEPT ![s] =
                               IF sendNackWrites(pubPC)
                                 THEN Append(@, [ssrc |-> nackReq[s].ssrc, sn |-> Head(nackTodo[s])])
                                 ELSE @]
              /\ pubLost' = (pubLost \/ sendNackWrites(pubPC))
              /\ nackTodo' = [nackTodo EXCEPT ![s] = Tail(@)]
              /\ subLoop' = [subLoop EXCEPT ![s] = IF Tail(nackTodo[s]) = <<>> THEN "select" ELSE "nack"]
              /\ UNCHANGED <<nackReq, panic>>
  /\ UNCHANGED <<lossVars, wrVars, rembVars, snapVars, pubPC, ansVars, obsVars, track, trackKind,
                 pc, answerErr, flags, ssrcPT, chans, wg, byteRate, isLostPacket, rtpVars,
                 pliVars, closePC, rdVars>>

\* ---------------------------------------------------------------- sendNack
\* The reports given to sendNack.
NackReports == {[ssrc |-> VideoSSRC, sn |-> n] : n \in SeqNums}

\* sendNack(nack) on this transport; the call is made by the feedback loop
\* of a subscriber of the same pipeline.
sendNack(n) ==
  /\ panic = "none" /\ nackCalls < MaxNacks
  /\ nackCalls' = nackCalls + 1
  /\ nackArg' = n
  /\ IF sendNackWrites(pc)
       THEN /\ isLostPacket' = TRUE
            /\ nackWr' = Append(nackWr, n)
       ELSE UNCHANGED <<isLostPacket, nackWr>>
  /\ UNCHANGED <<wrVars, rembVars, snapVars, nackVars, ansVars, obsVars, subVars, pc,
                 answerErr, flags, ssrcPT, chans, wg, byteRate, rtpVars, pliVars, closePC,
                 panic, rdVars>>

\* ------------------------------------------------------------------ SSRCPT
\* SSRCPT(): RLock; return t.ssrcPT.  The value returned is the map of the
\* transport itself, so what the caller reads through it is the current
\* content of t.ssrcPT.
SSRCPTResult == ssrcPT

SSRCPT ==
  /\ panic = "none"
  /\ snapCalled' = TRUE
  /\ snapAt' = ssrcPT
  /\ UNCHANGED <<lossVars, wrVars, rembVars, nackVars, ansVars, obsVars, subVars, pc, answerErr, flags, ssrcPT,
                 chans, wg, byteRate, isLostPacket, rtpVars, pliVars, closePC, panic, rdVars>>

\* ---------------------------------------------------------------- WriteRTP
WritePkts == {NilPkt} \cup {RtpPkt(s) : s \in Streams}

\* Mutant: the packet's stream id is taken for a registered track.
LookupTrackAny(p) == p.ssrc

\* track := t.track[pkt.SSRC] under the read lock: the stream whose track
\* gets the packet, or 0 when there is none.
LookupTrack(p) == IF track[p.ssrc] # 0 THEN p.ssrc ELSE 0

\* WriteRTP(pkt) up to RUnlock: the nil test (the call returns
\* errInvalidPacket) and the lookup under the read lock.
WriteRTP(w, p) ==
  /\ panic = "none" /\ nWrites < MaxWrites /\ wrPC[w] = "idle"
  /\ nWrites' = nWrites + 1
  /\ wrArg' = [wrArg EXCEPT ![w] = p]
  /\ IF p.nil
       THEN /\ wrPkt' = p /\ wrRet' = "InvalidPacket"
            /\ UNCHANGED <<wrPC, wrTrack>>
       ELSE /\ wrTrack' = [wrTrack EXCEPT ![w] = LookupTrack(p)]
            /\ wrPC' = [wrPC EXCEPT ![w] = "found"]
            /\ UNCHANGED <<wrPkt, wrRet>>
  /\ UNCHANGED written
  /\ UNCHANGED <<lossVars, rembVars, snapVars, nackVars, ansVars, obsVars, subVars, pc, answerErr, flags,
                 ssrcPT, chans, wg, byteRate, isLostPacket, rtpVars, pliVars, closePC,
                 panic, rdVars>>

\* After the lock is released: track.WriteRTP(pkt) on the track found, or
\* errInvalidTrack when there was none.
WriteRTPTrack(w) ==
  /\ panic = "none" /\ wrPC[w] = "found"
  /\ wrPC' = [wrPC EXCEPT ![w] = "idle"]
  /\ wrPkt' = wrArg[w]
  /\ IF wrTrack[w] # 0
       THEN /\ written' = [written EXCEPT ![wrTrack[w]] = @ + 1]
            /\ wrRet' = "written"
       ELSE /\ wrRet' = "TrackNotFound"
            /\ UNCHANGED written
  /\ UNCHANGED <<nWrites, wrArg, wrTrack>>
  /\ UNCHANGED <<lossVars, rembVars, snapVars, nackVars, ansVars, obsVars, subVars, pc, answerErr, flags,
                 ssrcPT, chans, wg, byteRate, isLostPacket, rtpVars, pliVars, closePC,
                 panic, rdVars>>

\* ---------------------------------------------------------------- sendREMB
\* A loss rate is the rational n / LossDen.  The inputs are the rates below
\* 0.1, the rates n / 16 (for which float64(byteRate) * (1 - lostRate) is
\* exact), and rates outside [0, 1].
LossDen == 16 * 5
LossInputs == {-5, 0, 4, 5, 10, 20, 40, 60, 75, 80, 85, 120}
\* Byte rates a transport can have measured.
RateInputs == {0, 1, 10000, 14999, 15000, 20000, 37500, 50000, 60000, 120000, 400000}

\* var videoSSRC; the loop over t.track keeps the id of the video track it
\* visits last (0 when there is none); a map is visited in any order.
RembSSRC == IF \E s \in Streams : isVideoPT(track[s])
              THEN {s \in Streams : isVideoPT(track[s])}
              ELSE {0}

\* A proposal that scales the rate by the loss rate instead of by its complement.
RateProposalLossScaled(rate, n) ==
  IF n >= 0 /\ n * 10 < LossDen THEN rate * 2
  ELSE (rate * n) \div LossDen

\* The else-if and else branches, which read t.byteRate.
RateProposal(rate, n) ==
  IF n >= 0 /\ n * 10 < LossDen THEN rate * 2
  ELSE (rate * (LossDen - n)) \div LossDen

\* The proposal before clamping when t.byteRate holds one value throughout.
REMBProposal(rate, n) ==
  IF n = 0 /\ rate = 0 THEN rembHighBW
  ELSE RateProposal(rate, n)

\* Mutant: the upper clamp is missing.
ClampLowOnly(bw) == IF bw < rembLowBW THEN rembLowBW ELSE bw

Clamp(bw) == IF bw < rembLowBW THEN rembLowBW
             ELSE IF bw > rembHighBW THEN rembHighBW
             ELSE bw

\* bw after the two clamping ifs.
REMBBandwidth(rate, n) == Clamp(REMBProposal(rate, n))

\* A range check that only rejects negative loss rates.
LossValidLowerOnly(n) == ~(n < 0)

\* if lostRate > 1 || lostRate < 0 { return }
LossValid(n) == ~(n > LossDen \/ n < 0)

\* The log keeps the last two reports.
LastTwo(q) == IF Len(q) > 2 THEN Tail(q) ELSE q

\* The call up to RUnlock: the range check and the loop over t.track under
\* the read lock.
sendREMB(n) ==
  /\ panic = "none" /\ rembPC = "idle"
  /\ rembCalled' = TRUE /\ rembLoss' = n
  /\ IF ~LossValid(n)
       THEN UNCHANGED <<rembPC, rembVid>>
       ELSE /\ rembVid' \in RembSSRC
            /\ rembPC' = IF n = 0 THEN "zero" ELSE "rate"
  /\ UNCHANGED <<rembOut, rembLog, rembRate, rembSeen, rembBW, panic>>
  /\ UNCHANGED <<lossVars, wrVars, snapVars, nackVars, ansVars, obsVars, subVars, pc, answerErr, flags,
                 ssrcPT, chans, wg, byteRate, isLostPacket, rtpVars, pliVars, closePC,
                 rdVars>>

\* lostRate == 0 && t.byteRate == 0: the read of t.byteRate, without a
\* lock, that the condition makes when the loss rate is 0.
sendREMBZero ==
  /\ panic = "none" /\ rembPC = "zero"
  /\ rembRate' = byteRate /\ rembSeen' = rateSeen
  /\ IF byteRate = 0
       THEN rembBW' = rembHighBW /\ rembPC' = "write"
       ELSE rembBW' = rembBW /\ rembPC' = "rate"
  /\ UNCHANGED <<rembCalled, rembLoss, rembVid, rembOut, rembLog, panic>>
  /\ UNCHANGED <<lossVars, wrVars, snapVars, nackVars, ansVars, obsVars, subVars, pc, answerErr, flags,
                 ssrcPT, chans, wg, byteRate, isLostPacket, rtpVars, pliVars, closePC,
                 rdVars>>

\* bw = t.byteRate * 2, or bw = uint64(float64(t.byteRate) * (1 - lostRate)):
\* the read of t.byteRate in the branch taken, without a lock.
sendREMBRate ==
  /\ panic = "none" /\ rembPC = "rate"
  /\ rembRate' = byteRate /\ rembSeen' = rateSeen
  /\ rembBW' = RateProposal(byteRate, rembLoss)
  /\ rembPC' = "write"
  /\ UNCHANGED <<rembCalled, rembLoss, rembVid, rembOut, rembLog, panic>>
  /\ UNCHANGED <<lossVars, wrVars, snapVars, nackVars, ansVars, obsVars, subVars, pc, answerErr, flags,
                 ssrcPT, chans, wg, byteRate, isLostPacket, rtpVars, pliVars, closePC,
                 rdVars>>

\* The two clamping ifs and t.pc.WriteRTCP of the report.
sendREMBWrite ==
  /\ panic = "none" /\ rembPC = "write"
  /\ rembPC' = "idle"
  /\ IF pc = "nil"
       THEN /\ panic' = "nil pc"
            /\ UNCHANGED <<rembOut, rembLog>>
       ELSE /\ rembOut' = IF pc = "open"
                            THEN [ssrc |-> rembVid, bitrate |-> Clamp(rembBW) * 8]
                            ELSE rembOut
            /\ rembLog' = IF pc = "open"
                            THEN LastTwo(Append(rembLog,
                                   [loss |-> rembLoss, rate |-> rembRate, seen |-> rembSeen,
                                    proposal |-> rembBW, bitrate |-> Clamp(rembBW) * 8]))
                            ELSE rembLog
            /\ UNCHANGED panic
  /\ UNCHANGED <<rembCalled, rembLoss, rembVid, rembRate, rembSeen, rembBW>>
  /\ UNCHANGED <<lossVars, wrVars, snapVars, nackVars, ansVars, obsVars, subVars, pc, answerErr, flags,
                 ssrcPT, chans, wg, byteRate, isLostPacket, rtpVars, pliVars, closePC,
                 rdVars>>

\* -------------------------------------------------------------------- Next
\* Every step but the call of Close.
NextLoops ==
  \/ \E o \in OptionInputs, out \in AnswerOutcomes : AnswerPublish(o, out)
  \/ \E m \in SubMapInputs, fail \in SUBSET {AudioSSRC}, out \in {"ok", "pcErr"} :
       AnswerSubscribe(m, fail, out)
  \/ \E s \in Streams : SubAddTrack(s)
  \/ \E out \in {"ok", "sdpErr", "localErr"} : SubHandshake(out)
  \/ \E s \in Streams : subReadRTCP(s)
  \/ SubReturn
  \/ \E s \in Streams : SubStop(s)
  \/ \E s \in Streams : SubDefault(s)
  \/ \E s \in Streams : SubReadEOF(s)
  \/ \E s \in Streams : SubStreamEnd(s)
  \/ \E s \in Streams : SubReadRTCP(s)
  \/ \E s \in Streams : TrackDiscovered(s)
  \/ \E s \in Streams : OnTrack(s)
  \/ \E s \in Streams : OnTrackListen(s)
  \/ \E s \in Streams : RtpStart(s)
  \/ \E s \in Streams : RtpStop(s)
  \/ \E s \in Streams : RtpTick(s) /\ UNCHANGED obsVars
  \/ \E s \in Streams : RtpDefault(s)
  \/ \E s \in Streams, sz \in PktSizes : RtpReadPkt(s, sz) /\ UNCHANGED obsVars
  \/ \E s \in Streams : RtpReadEOF(s)
  \/ \E s \in Streams : RtpStreamEnd(s)
  \/ \E s \in Streams : RtpReadErr(s)
  \/ \E s \in Streams : RtpPush(s)
  \/ PliStart
  \/ PliStop
  \/ PliTick
  \/ \E s \in Streams : PliSend(s)
  \/ PliSendClosed
  \/ \E s \in Streams : LisStop(s)
  \/ \E s \in Streams : LisRecvClosed(s)
  \/ \E c \in Closers : CloseStop(c)
  \/ \E c \in Closers : CloseWait(c)
  \/ \E c \in Closers : CloseWake(c)
  \/ \E c \in Closers : CloseRtp(c)
  \/ \E c \in Closers : ClosePli(c)
  \/ ReadPkt
  \/ ReadClosed

\* Close is called once.
NextOnce ==
  \/ NextLoops
  \/ CloseCall(1)

SpecOnce == Init /\ [][NextOnce]_vars

\* Close is called up to twice, one call after or during the other.
Next ==
  \/ NextLoops
  \/ \E c \in Closers : CloseCall(c)

Spec == Init /\ [][Next]_vars


\* The goroutines and Close run whenever they can; a select whose stopCh
\* case is ready again and again takes it in the end (select picks among
\* its ready cases at random).  Nothing is assumed of the callers of
\* ReadRTP, of the remote peer or of the ticks.
Fairness ==
  /\ \A s \in Streams :
       /\ WF_vars(OnTrack(s)) /\ WF_vars(OnTrackListen(s)) /\ WF_vars(RtpStart(s)) /\ SF_vars(RtpStop(s))
       /\ WF_vars(RtpReadEOF(s)) /\ WF_vars(RtpPush(s))
       /\ SF_vars(LisStop(s)) /\ WF_vars(PliSend(s))
       /\ SF_vars(SubStop(s)) /\ WF_vars(SubReadEOF(s))
  /\ WF_vars(PliStart) /\ SF_vars(PliStop) /\ WF_vars(PliSendClosed)
  /\ \A c \in Closers :
       /\ WF_vars(CloseStop(c)) /\ WF_vars(CloseWait(c)) /\ WF_vars(CloseWake(c))
       /\ WF_vars(CloseRtp(c)) /\ WF_vars(ClosePli(c))

FairSpec == Spec /\ Fairness

\* WriteRTP on a transport that was answered, or not yet.
NextWrite ==
  \/ \E m \in SubMapInputs, fail \in SUBSET {AudioSSRC}, out \in {"ok", "pcErr"} :
       AnswerSubscribe(m, fail, out)
  \/ \E s \in Streams : SubAddTrack(s)
  \/ \E out \in {"ok", "sdpErr", "localErr"} : SubHandshake(out)
  \/ \E s \in Streams : subReadRTCP(s)
  \/ SubReturn
  \/ \E w \in Writers, p \in WritePkts : WriteRTP(w, p)
  \/ \E w \in Writers : WriteRTPTrack(w)

SpecWrite == Init /\ [][NextWrite]_vars

\* A subscriber that handles NACK reports while the pipeline's publisher
\* comes and goes.
NextNack ==
  \/ \E m \in SubMapInputs, fail \in SUBSET {AudioSSRC}, out \in {"ok", "pcErr"} :
       AnswerSubscribe(m, fail, out)
  \/ \E s \in Streams : SubAddTrack(s)
  \/ \E out \in {"ok", "sdpErr", "localErr"} : SubHandshake(out)
  \/ \E s \in Streams : subReadRTCP(s)
  \/ SubReturn
  \/ \E s \in Streams : SubDefault(s)
  \/ \E s \in Streams : SubReadRTCP(s)
  \/ \E s \in Streams, ssrc \in Streams, sns \in NackLists : SubReadNack(s, ssrc, sns)
  \/ \E s \in Streams, hit \in BOOLEAN : SubNackStep(s, hit)
  \/ \E p \in PubStates : PubChange(p)

SpecNack == Init /\ [][NextNack]_vars

\* A publisher whose stream is received while NACKs are sent to it.
NextLoss ==
  \/ \E o \in OptionInputs, out \in AnswerOutcomes : AnswerPublish(o, out)
  \/ \E s \in Streams : TrackDiscovered(s)
  \/ \E s \in Streams : OnTrack(s)
  \/ \E s \in Streams : OnTrackListen(s)
  \/ \E s \in Streams : RtpStart(s)
  \/ \E s \in Streams : RtpTick(s) /\ UNCHANGED obsVars
  \/ \E s \in Streams : RtpDefault(s)
  \/ \E s \in Streams, sz \in PktSizes : RtpReadPkt(s, sz) /\ UNCHANGED obsVars
  \/ \E s \in Streams : RtpPush(s)
  \/ ReadPkt
  \/ \E n \in NackReports : sendNack(n)

SpecLoss == Init /\ [][NextLoss]_vars

\* The Answer calls over more options and maps, the discovery of the inbound
\* streams, and SSRCPT.
PublishOptions ==
  {NilOptions} \cup {Opt(v, "true", "absent", c) :
                       v \in {"true", "absent"},
                       c \in {"h264", "vp9", "Vp9", "vp8", "av1", NotAString, "absent"}}
SubscribeMaps ==
  {SubMap(v, a) : v \in {0, DefaultPayloadTypeVP8, DefaultPayloadTypeVP9,
                         DefaultPayloadTypeH264},
                  a \in {0, DefaultPayloadTypeOpus}}

NextAnswer ==
  \/ \E o \in PublishOptions, out \in AnswerOutcomes : AnswerPublish(o, out)
  \/ \E m \in SubscribeMaps, fail \in SUBSET Streams, out \in {"ok", "pcErr"} :
       AnswerSubscribe(m, fail, out)
  \/ \E s \in Streams : SubAddTrack(s)
  \/ \E out \in {"ok", "sdpErr", "localErr"} : SubHandshake(out)
  \/ \E s \in Streams : subReadRTCP(s)
  \/ SubReturn
  \/ \E s \in Streams : TrackDiscovered(s)
  \/ \E s \in Streams : OnTrack(s)
  \/ \E s \in Streams : OnTrackListen(s)
  \/ SSRCPT

SpecAnswer == Init /\ [][NextAnswer]_vars

\* What an observer of the connection records at a window recompute and at
\* a packet read.
ObserveTick == rateSeen' = (rateSeen \/ byteRate' > 0) /\ winBytes' = 0
ObserveRead(sz) == winBytes' = winBytes + sz /\ UNCHANGED rateSeen

\* The loss rates of the REMB calls on a receiving publisher: 0 and 0.5.
RembProbes == {0, 40}

\* A publisher that receives its streams while REMB reports are sent.
NextRate ==
  \/ \E o \in OptionInputs, out \in AnswerOutcomes : AnswerPublish(o, out)
  \/ \E s \in Streams : TrackDiscovered(s)
  \/ \E s \in Streams : OnTrack(s)
  \/ \E s \in Streams : OnTrackListen(s)
  \/ \E s \in Streams : RtpStart(s)
  \/ \E s \in Streams : RtpTick(s) /\ ObserveTick
  \/ \E s \in Streams : RtpDefault(s)
  \/ \E s \in Streams, sz \in PktSizes : RtpReadPkt(s, sz) /\ ObserveRead(sz)
  \/ \E s \in Streams : RtpPush(s)
  \/ ReadPkt
  \/ \E n \in RembProbes : sendREMB(n)
  \/ sendREMBZero
  \/ sendREMBRate
  \/ sendREMBWrite

SpecRate == Init /\ [][NextRate]_vars

\* sendREMB on an answered transport: a publisher that measured some byte
\* rate, or a subscriber with its tracks.
InitREMB ==
  /\ answerErr \in {"none", "published", "subscribed"}
  /\ pc = IF answerErr = "none" THEN "nil" ELSE "open"
  /\ hasVideo = FALSE /\ hasAudio = FALSE /\ hasScreen = FALSE
  /\ videoCodec = "none"
  /\ ssrcPT \in {[s \in Streams |-> 0], StreamPT}
  /\ track \in {TracksOf(m, {}) : m \in SubMapInputs}
  /\ answerErr # "published" => ssrcPT = [s \in Streams |-> 0] /\ byteRate = 0
  /\ answerErr # "subscribed" => track = [s \in Streams |-> 0]
  /\ trackKind = [s \in Streams |-> IF track[s] # 0 THEN TrackKind(track[s]) ELSE "none"]
  /\ subLoop = [s \in Streams |-> "none"]
  /\ stopClosed = FALSE /\ rtpCh = <<>> /\ rtpClosed = FALSE /\ pliClosed = FALSE
  /\ wg = 0 /\ isLostPacket = FALSE
  /\ byteRate \in RateInputs
  /\ rtpLoop = [s \in Streams |-> "idle"]
  /\ total = [s \in Streams |-> 0]
  /\ held = [s \in Streams |-> NoPkt]
  /\ nRead = [s \in Streams |-> 0]
  /\ pliLoop = "none" /\ pliTicks = 0
  /\ lis = [s \in Streams |-> "none"]
  /\ pliOut = [s \in Streams |-> 0]
  /\ closePC = [c \in Closers |-> "idle"]
  /\ panic = "none"
  /\ eos = FALSE
  /\ delivered = [s \in Streams |-> <<>>]
  /\ nWrites = 0 /\ wrPkt = NilPkt /\ wrRet = "none"
  /\ wrPC = [w \in Writers |-> "idle"]
  /\ wrArg = [w \in Writers |-> NilPkt]
  /\ wrTrack = [w \in Writers |-> 0]
  /\ written = [s \in Streams |-> 0]
  /\ rembCalled = FALSE /\ rembLoss = 0 /\ rembOut = NoREMB /\ rembLog = <<>>
  /\ rembPC = "idle" /\ rembVid = 0 /\ rembRate = 0 /\ rembSeen = FALSE /\ rembBW = 0
  /\ ansOpt = IF answerErr = "published" THEN Opt("absent", "absent", "absent", "absent")
                                          ELSE NilOptions
  /\ ansMap = track /\ ansFail = {}
  /\ ansStep = IF answerErr = "subscribed" THEN "returned" ELSE "idle"
  /\ ansSeen = {s \in Streams : track[s] # 0}
  /\ ansErr = "none"
  /\ snapCalled = FALSE /\ snapAt = [s \in Streams |-> 0]
  /\ pubPC = "absent" /\ pubLost = FALSE
  /\ nackReq = [s \in Streams |-> NoNack]
  /\ nackOut = [s \in Streams |-> <<>>]
  /\ nackTodo = [s \in Streams |-> <<>>]
  /\ nackCalls = 0 /\ nackArg = NoReport /\ nackWr = <<>>
  /\ rateSeen \in BOOLEAN
  /\ byteRate > 0 => rateSeen
  /\ rateSeen => answerErr = "published"
  /\ winBytes = 0

NextREMB ==
  \/ \E n \in LossInputs : sendREMB(n)
  \/ sendREMBZero
  \/ sendREMBRate
  \/ sendREMBWrite

SpecREMB == InitREMB /\ [][NextREMB]_vars


\* ------------------------------------------------------------------ claims
\* Packets of stream s in the buffer of rtpCh, in order.
InChannel(s) == SelectSeq(rtpCh, LAMBDA p : p.ssrc = s)
SeqsOf(q) == [i \in 1..Len(q) |-> q[i].seq]
\* Packets of stream s pushed onto rtpCh so far.
Pushed(s) == nRead[s] - (IF held[s] = NoPkt THEN 0 ELSE 1)

\* C1: in no interleaving of Close with the loops does a loop send on rtpCh
\* or on pliCh after that channel has been closed (such a send panics).
C1_NoSendOnClosedChannel ==
  panic \notin {"send on closed rtpCh", "send on closed pliCh"}

\* C2: once Close has raised the shutdown signal it returns in the end (the
\* loops it waits for all exit), unless the process has died meanwhile.
C2_CloseTerminates ==
  \A c \in Closers : (closePC[c] = "wait") ~> (closePC[c] = "done" \/ panic # "none")

\* C3: no call of Close closes a channel (stopCh, rtpCh, pliCh) that is
\* closed already.
C3_NoCloseOfClosedChannel ==
  panic \notin {"close of closed stopCh", "close of closed rtpCh",
                "close of closed pliCh"}

\* The loops that have been spawned and have not reported completion: the
\* goroutine of sendPLI, the OnTrack callback that goes on into receiveRTP,
\* the keyframe listener of a video stream and the feedback loop of a sender.
LoopsUnfinished ==
  \/ pliLoop \notin {"none", "done"}
  \/ \E s \in Streams :
       \/ rtpLoop[s] \notin {"idle", "done"}
       \/ lis[s] \notin {"none", "done"}
       \/ subLoop[s] \notin {"none", "done"}

\* C4: Close tears the connection down, then closes stopCh, then waits until
\* every spawned loop has reported completion (it leaves wg.Wait() with the
\* counter at 0 and with no spawned loop unfinished), then closes rtpCh, then
\* closes pliCh: no step happens before the one before it has completed.
CloseOrderInv ==
  /\ stopClosed => pc = "closed"
  /\ rtpClosed => stopClosed
  /\ pliClosed => rtpClosed
  /\ \A c \in Closers :
       /\ closePC[c] \in {"wait", "blocked", "woken", "closeRtp", "closePli", "done"} => stopClosed
       /\ closePC[c] \in {"closePli", "done"} => rtpClosed
       /\ closePC[c] = "done" => pliClosed
CloseOrderStep ==
  /\ (stopClosed' /\ ~stopClosed) => pc = "closed" /\ ~rtpClosed /\ ~pliClosed
  /\ \A c \in Closers :
       (closePC[c] # "closeRtp" /\ closePC'[c] = "closeRtp") =>
         stopClosed /\ wg = 0 /\ ~LoopsUnfinished
  /\ (rtpClosed' /\ ~rtpClosed) =>
       /\ ~pliClosed
       /\ ~LoopsUnfinished
       /\ \E c \in Closers : closePC[c] = "closeRtp" /\ closePC'[c] = "closePli"
  /\ (pliClosed' /\ ~pliClosed) =>
       \E c \in Closers : closePC[c] = "closePli" /\ closePC'[c] = "done"
C4_CloseOrder == []CloseOrderInv /\ [][CloseOrderStep]_vars

\* C5: whenever rtpCh is closed, the connection is torn down and no
\* receiveRTP loop is still running.
C5_RtpChClosedAfterProducers ==
  rtpClosed => /\ pc = "closed"
               /\ \A s \in Streams : rtpLoop[s] \notin {"select", "read", "send"}

\* C6: once stopCh is closed no packet is pushed onto rtpCh any more.
C6_NoPushAfterStop == [][stopClosed => Len(rtpCh') <= Len(rtpCh)]_vars

\* C7: ReadRTP reports ChannelClosed only on the closed and drained channel,
\* after every packet pushed has been returned; a call that waits on the
\* empty channel returns ChannelClosed once Close has closed the channel; and
\* a call that returns a packet takes the head of the buffer.
ReadRTPInv ==
  /\ eos => rtpClosed /\ rtpCh = <<>>
  /\ eos => \A s \in Streams : Len(delivered[s]) = Pushed(s)
  /\ (panic = "none" /\ rtpCh = <<>> /\ \E c \in Closers : closePC[c] \in {"closePli", "done"})
       => ENABLED ReadClosed
ReadRTPStep ==
  delivered' # delivered =>
    /\ rtpCh # <<>> /\ rtpCh' = Tail(rtpCh)
    /\ delivered' = [delivered EXCEPT ![Head(rtpCh).ssrc] = Append(@, Head(rtpCh).seq)]
C7_ReadRTPContract == []ReadRTPInv /\ [][ReadRTPStep]_vars

\* ChannelClosed was reported after packets were returned.
C7_Witness == eos /\ delivered[VideoSSRC] # <<>> /\ delivered[AudioSSRC] # <<>>

\* A step of WriteRTP: caller w makes its lookup, or returns.
C8_Lookup(w) == wrPC[w] = "idle" /\ wrPC'[w] = "found"
C8_Return(w) == wrPC[w] = "found" /\ wrPC'[w] = "idle"

\* C8: a WriteRTP call leaves the track table alone; for a nil packet it
\* returns InvalidPacket and for a stream without track TrackNotFound, writing
\* nothing; for a stream with a track it writes to that stream's track only.
WriteRTPStep ==
  /\ nWrites' # nWrites =>
       /\ track' = track /\ written' = written
       /\ (\A w \in Writers : ~C8_Lookup(w)) => wrPkt'.nil /\ wrRet' = "InvalidPacket"
  /\ \A w \in Writers :
       /\ C8_Lookup(w) =>
            /\ ~wrArg'[w].nil
            /\ wrTrack'[w] = IF track[wrArg'[w].ssrc] # 0 THEN wrArg'[w].ssrc ELSE 0
       /\ C8_Return(w) =>
            /\ track' = track /\ wrPkt' = wrArg[w]
            /\ wrTrack[w] = 0 => wrRet' = "TrackNotFound" /\ written' = written
            /\ wrTrack[w] # 0 =>
                 written' = [written EXCEPT ![wrArg[w].ssrc] = @ + 1]
C8_WriteRTPErrors == [][WriteRTPStep]_vars

\* A write to the video track went through and a later one found no track.
C8_Witness ==
  /\ written[VideoSSRC] > 0 /\ written[AudioSSRC] = 0
  /\ wrRet = "TrackNotFound" /\ wrPkt = RtpPkt(AudioSSRC)

\* C9: for every stream, the packets returned by ReadRTP, then those in the
\* buffer, then the one its loop holds, are the packets read from the
\* connection, once each and in the order read; the buffer never holds more
\* than its capacity.
C9_PerStreamOrder ==
  /\ Len(rtpCh) <= RtpChCap
  /\ \A s \in Streams :
       delivered[s] \o SeqsOf(InChannel(s)) \o
         (IF held[s] = NoPkt THEN <<>> ELSE <<held[s].seq>>)
       = [i \in 1..nRead[s] |-> i]

\* Packets of the two streams are interleaved in a full buffer: a later packet
\* of a stream whose first packet ReadRTP has returned waits behind a packet
\* of the other stream, whose loop is blocked on the send of its next one.
C9_Witness ==
  /\ Len(rtpCh) = RtpChCap /\ Len(rtpCh) >= 2
  /\ \E s, o \in Streams :
       /\ s # o
       /\ delivered[s] # <<>>
       /\ \E i, j \in 1..Len(rtpCh) : i < j /\ rtpCh[i].ssrc = o /\ rtpCh[j].ssrc = s
       /\ rtpLoop[o] = "send" /\ held[o] # NoPkt

\* C10: the bitrate of every REMB report is 8 times a bandwidth within
\* [rembLowBW, rembHighBW].
C10_REMBClamped ==
  rembOut # NoREMB =>
    /\ rembOut.bitrate >= 8 * rembLowBW /\ rembOut.bitrate <= 8 * rembHighBW
    /\ \E n \in LossInputs :
         n >= 0 /\ n <= LossDen /\ rembOut.bitrate = 8 * REMBBandwidth(byteRate, n)

\* A report for loss rate 0 on a connection faster than the high bound
\* carries the high bound.
C10_Witness ==
  rembLoss = 0 /\ byteRate > rembHighBW /\ rembOut.bitrate = 8 * rembHighBW

\* C11: for one byte rate, a report for a higher loss rate never carries a
\* higher bitrate than a report for a lower loss rate; this holds for byte
\* rate 0 and across the loss rates 0 and 0.1.
C11_REMBMonotone ==
  Len(rembLog) = 2 =>
    /\ rembLog[1].loss <= rembLog[2].loss => rembLog[2].bitrate <= rembLog[1].bitrate
    /\ rembLog[2].loss <= rembLog[1].loss => rembLog[1].bitrate <= rembLog[2].bitrate

\* At byte rate 0 a report for loss rate 0 is followed by a report for a
\* loss rate of at least 0.1 that carries a strictly lower bitrate.
C11_Witness ==
  /\ byteRate = 0 /\ Len(rembLog) = 2
  /\ rembLog[1].loss = 0 /\ rembLog[2].loss * 10 >= LossDen
  /\ rembLog[2].bitrate < rembLog[1].bitrate

\* The proposal as C12 states it: the high bound only when no byte rate was
\* ever observed.
ProposalAsStated(seen, rate, n) ==
  IF n = 0 /\ ~seen THEN rembHighBW
  ELSE IF n * 10 < LossDen THEN rate * 2
  ELSE (rate * (LossDen - n)) \div LossDen

\* C12: before clamping, the proposal of every report is the high bound when
\* the loss rate is 0 and no byte rate was ever observed, twice the byte rate
\* for a loss rate in [0, 0.1), and rate * (1 - loss) otherwise; a byte rate
\* of 0 measured after a non-zero one does not count as never observed.
C12_ProposalAsStated ==
  [][rembLog' # rembLog =>
       rembLog'[Len(rembLog')].proposal =
         ProposalAsStated(rembLog'[Len(rembLog')].seen, rembLog'[Len(rembLog')].rate,
                          rembLog'[Len(rembLog')].loss)]_vars

\* A step of a sendREMB call whose loss rate is outside [0, 1].
C13_Rejected ==
  /\ rembLoss' < 0 \/ rembLoss' > LossDen
  /\ rembLoss' # rembLoss \/ rembCalled' # rembCalled

\* C13: a sendREMB call with a loss rate below 0 or above 1 writes no report
\* and changes no field of the transport.
C13_InvalidLossNoOp ==
  [][C13_Rejected =>
       UNCHANGED <<rembOut, rembLog, rembPC, panic, pc, answerErr, flags, ssrcPT, subVars,
                   chans, wg, byteRate, isLostPacket, rtpVars, pliVars, closePC>>]_vars

\* sendREMB was called with loss rate 1.5 on an open connection after a
\* report for loss rate 0, and that report is still the last one written.
C13_Witness ==
  /\ pc = "open" /\ rembCalled /\ rembLoss = 120 /\ rembPC = "idle"
  /\ Len(rembLog) = 1 /\ rembLog[1].loss = 0 /\ rembOut.bitrate = rembLog[1].bitrate

\* C18: a sendREMB call on a publisher whose video stream was discovered
\* addresses its report to that video stream, never to 0 or to the audio
\* stream, and the report written carries the address the call chose.
C18_REMBToVideoStream ==
  /\ [][/\ answerErr = "published"
        /\ isVideoPT(ssrcPT[VideoSSRC])
        /\ rembPC = "idle" /\ rembPC' # "idle"
        => rembVid' = VideoSSRC]_vars
  /\ [][rembLog' # rembLog => rembOut'.ssrc = rembVid]_vars

\* The video codec as C15 states it for a codec option that is a string or
\* is absent: vp8 when the options name none.
CodecAsStated(c) ==
  IF EqualFold(c, "h264") THEN "h264"
  ELSE IF EqualFold(c, "vp9") THEN "vp9"
  ELSE "vp8"

\* C15: AnswerPublish with options registers exactly one video codec: h264
\* or vp9 when the codec option names it, vp8 for any other value and when
\* the options have no codec key.
C15_OneVideoCodec ==
  ~ansOpt.nil /\ ansOpt.codec # NotAString => videoCodec = CodecAsStated(ansOpt.codec)

\* A step of an AnswerPublish call that reports invalid options.
C16_Failed == answerErr = "none" /\ answerErr' = "invalid options"

\* C16: AnswerPublish with nil options fails at once and leaves the
\* transport as it was: no connection, no flag set, no codec, no loop
\* started, the wait group at 0.
C16_NilOptionsNoEffect ==
  /\ [](answerErr = "invalid options" =>
         /\ pc = "nil" /\ wg = 0 /\ pliLoop = "none" /\ videoCodec = "none"
         /\ ~hasVideo /\ ~hasAudio /\ ~hasScreen
         /\ \A s \in Streams : rtpLoop[s] = "idle" /\ lis[s] = "none")
  /\ [][C16_Failed =>
         UNCHANGED <<pc, flags, ssrcPT, subVars, chans, wg, byteRate, isLostPacket,
                     rtpVars, pliVars, closePC, panic>>]_vars

\* AnswerPublish was called with nil options and reported the error.
C16_Witness == ansOpt.nil /\ answerErr = "invalid options" /\ pc = "nil"

\* C17: the mapping SSRCPT returned stays what it was at the call, whatever
\* OnTrack inserts later.
C17_SnapshotStable == snapCalled => SSRCPTResult = snapAt

\* The track table and the kinds as C19 states them.
C19_Tracks ==
  /\ ansStep = "returned" /\ answerErr \in {"subscribed", "sdpErr", "localErr"}
  /\ \E s \in Streams : ansMap[s] # 0
  /\ ansFail = {}
  => \A s \in Streams :
       /\ track[s] = ansMap[s]
       /\ trackKind[s] =
            IF ansMap[s] = 0 THEN "none"
            ELSE IF ansMap[s] \in {DefaultPayloadTypeVP8, DefaultPayloadTypeVP9,
                                   DefaultPayloadTypeH264}
              THEN "video"
              ELSE "audio"

\* A feedback loop starts in a state where every track is registered.
C19_LoopStart ==
  \A s \in Streams :
    subLoop[s] = "none" /\ subLoop'[s] # "none" =>
      \A r \in Streams : ansMap'[r] # 0 /\ r \notin ansFail' => track'[r] # 0

\* C19: after AnswerSubscribe with a map whose track creations all succeed,
\* the track table has exactly the stream ids of the map as keys, a video
\* payload type gives a video track and any other an audio track, and the
\* feedback loops start only once every track is registered.
C19_SubscribeTracks == []C19_Tracks /\ [][C19_LoopStart]_vars

\* A subscription to a VP9 stream and an Opus stream: a video track, an
\* audio track, and both feedback loops started.
C19_Witness ==
  /\ answerErr = "subscribed" /\ ansFail = {}
  /\ ansMap = SubMap(DefaultPayloadTypeVP9, DefaultPayloadTypeOpus)
  /\ trackKind[VideoSSRC] = "video" /\ trackKind[AudioSSRC] = "audio"
  /\ \A s \in Streams : subLoop[s] = "select"

\* C20: a window recompute sets byteRate to the bytes of all the packets
\* read from the connection since the previous recompute, divided by 3, and
\* clears the loss flag, however many inbound streams there are.
C20_ConnectionRate ==
  [][winBytes > 0 /\ winBytes' = 0 =>
       byteRate' = winBytes \div 3 /\ ~isLostPacket']_vars

\* The number of requests for sequence number sn that loop s wrote to the
\* publisher.
C14_Sent(s, sn) == Cardinality({i \in 1..Len(nackOut[s]) : nackOut[s][i].sn = sn})

\* The sequence numbers of its report that loop s is through with: those no
\* longer ahead of it, and the one at which it crashed.
C14_Handled(s) ==
  {nackReq[s].sns[i] : i \in 1..(Len(nackReq[s].sns) - Len(nackTodo[s]))}
    \cup (IF subLoop[s] = "crashed" THEN {Head(nackTodo[s])} ELSE {})

\* C14: of the sequence numbers of a NACK report a feedback loop handled,
\* one the cache still holds leads to no request to the publisher, and one
\* it misses leads to exactly one request for that single sequence number
\* and the report's stream id, whatever the state of the publisher transport.
C14_NackRouting ==
  \A s \in Streams :
    nackReq[s].called =>
      /\ \A i \in 1..Len(nackOut[s]) : nackOut[s][i].ssrc = nackReq[s].ssrc
      /\ \A sn \in C14_Handled(s) :
           C14_Sent(s, sn) = IF sn \in nackReq[s].hits THEN 0 ELSE 1

\* C21: on a publisher with video or screen every tick of the keyframe
\* ticker leads to one keyframe request written for a video stream, never
\* for an audio stream; without video and screen the ticker loop does not
\* run; and a tick taken while no video stream is discovered does not stall
\* the ticker loop.
C21_KeyframeTicker ==
  /\ [](\A s \in Streams : pliOut[s] > 0 => isVideoPT(StreamPT[s]))
  /\ [](~hasVideo /\ ~hasScreen => pliLoop = "none" /\ pliTicks = 0)
  /\ (pliLoop = "send" /\ panic = "none") ~> (pliLoop # "send" \/ panic # "none")

\* The loops registered with the wait group that have not exited.
RunningLoops ==
  Cardinality({s \in Streams : rtpLoop[s] \in {"select", "read", "send"}})
  + Cardinality({s \in Streams : lis[s] = "select"})
  + Cardinality({s \in Streams : subLoop[s] \in {"select", "read", "nack", "crashed"}})
  + (IF pliLoop \in {"select", "send"} THEN 1 ELSE 0)

\* A loop that has exited holds no packet, and with no registered loop left
\* the wait group lets Close through.
C22_AfterExit ==
  /\ \A s \in Streams : rtpLoop[s] = "done" => held[s] = NoPkt
  /\ RunningLoops = 0 => wg = 0

\* An exit from a read reports completion once and pushes nothing; a loop
\* that has exited stays so.
C22_ExitStep ==
  \A s \in Streams :
    /\ rtpLoop[s] = "read" /\ rtpLoop'[s] = "done" => wg' = wg - 1 /\ rtpCh' = rtpCh
    /\ subLoop[s] = "read" /\ subLoop'[s] = "done" => wg' = wg - 1 /\ rtpCh' = rtpCh
    /\ rtpLoop[s] = "done" => rtpLoop'[s] = "done"
    /\ subLoop[s] = "done" => subLoop'[s] = "done"

\* C22: a receiveRTP or subReadRTCP loop whose read reports end-of-stream
\* exits: it reports completion to the wait group exactly once, pushes
\* nothing more onto rtpCh, and a later Close does not wait for it.
C22_GracefulEOF == []C22_AfterExit /\ [][C22_ExitStep]_vars

\* The read loop of the video stream has exited on end-of-stream before any
\* shutdown; only its keyframe listener is left in the wait group.
C22_Witness ==
  /\ rtpLoop[VideoSSRC] = "done" /\ ~stopClosed /\ pc = "open"
  /\ lis[VideoSSRC] = "select" /\ RunningLoops = 1 /\ wg = 1

\* C23: the wait group counter is never negative, equals the number of
\* registered loops that have not exited, and is 0 once all have exited.
C23_WaitGroupBalanced == wg >= 0 /\ wg = RunningLoops

\* The ticker loop, the read loop and the listener of the video stream
\* were registered and have all exited; the counter is back at 0.
C23_Witness ==
  /\ pliLoop = "done" /\ rtpLoop[VideoSSRC] = "done" /\ lis[VideoSSRC] = "done"
  /\ wg = 0

\* C24: a read of receiveRTP that fails with an error other than
\* end-of-stream does not crash the loop, and no absent packet is pushed
\* onto rtpCh.
C24_ReadErrorSurvived ==
  /\ panic # "nil packet"
  /\ \A i \in 1..Len(rtpCh) : rtpCh[i].ssrc \in Streams

\* A step of a sendNack call.
C25_Call == nackCalls' # nackCalls

\* The window recompute of the read loop of stream s.
C25_Recompute(s) ==
  /\ rtpLoop[s] = "select" /\ rtpLoop' = rtpLoop
  /\ byteRate' = total[s] \div 3
  /\ total' = [total EXCEPT ![s] = 0]

\* C25: sendNack without a peer connection writes nothing and leaves the
\* loss flag; with one it sets the flag and writes the given report once.
\* Only sendNack sets the flag and only a window recompute clears it.
C25_SendNackEffect ==
  [][/\ C25_Call /\ pc = "nil" => UNCHANGED <<isLostPacket, nackWr>>
     /\ C25_Call /\ pc # "nil" => isLostPacket' /\ nackWr' = Append(nackWr, nackArg')
     /\ ~C25_Call => nackWr' = nackWr
     /\ ~isLostPacket /\ isLostPacket' => C25_Call
     /\ isLostPacket /\ ~isLostPacket' => \E s \in Streams : C25_Recompute(s)]_vars

\* One sendNack on a transport without connection left no trace; a later
\* one on the connected transport wrote its report, and the flag is set.
C25_Witness ==
  /\ nackCalls = 2 /\ Len(nackWr) = 1 /\ nackWr[1] = nackArg
  /\ pc = "open" /\ isLostPacket
====
